---- MODULE Spec2Model ----
(***************************************************************************)
(* Model of src/lib/ssbtoolkit.py: the dose-response engines               *)
(* simulation.activation / simulation.inhibition (SetSimulationParameters, *)
(* Run, Analysis) and the calibration search simulation.fitModel.Run.      *)
(***************************************************************************)
EXTENDS Integers, Sequences, FiniteSets, TLC

(* ---------------------------------------------------------------- bounds *)
MaxPoints == 2      \* longest concentration range drawn as input
MaxLigands == 2     \* longest ligand / antagonist list drawn as input
MaxUndefined == 2   \* most keywords given as None in one SetSimulationParameters call
MaxIter == 3        \* largest maxiter drawn for the calibration search
MaxSamples == 5     \* samples of an observable course handed to calc_ratio

(* ------------------------------------------------- Python None / values *)
\* A Python attribute is modelled as None (the empty tuple) or Some(v).
None == <<>>
Some(v) == <<v>>
IsNone(x) == x = <<>>
Val(x) == x[1]

\* an exception raised to the caller: its class and the field its message names
\* ("" when the message names no configuration field)
Error(kind, field) == [kind |-> kind, field |-> field]
NoError == Error("none", "")

(* ------------------------------------------------------------ the inputs *)
\* the ligand names a caller passes: file names or plain names
LigandPool == <<"A.sdf", "B", "C.mol2", "D">>
\* os.path.splitext(name)[0]
splitext(n) == IF n = "A.sdf" THEN "A" ELSE IF n = "C.mol2" THEN "C" ELSE n

RECURSIVE SeqsUpTo(_, _)
SeqsUpTo(S, n) ==
    IF n = 0 THEN {<<>>}
    ELSE LET shorter == SeqsUpTo(S, n - 1)
         IN  shorter \cup {Append(s, x) : s \in {t \in shorter : Len(t) = n - 1}, x \in S}

\* the lists of the first n names, n = 0 .. MaxLigands
LigandLists == {SubSeq(LigandPool, 1, n) : n \in 0..MaxLigands}
\* the pKd list given with a ligand list of length n: one distinct value per position
AffinityList(n) == [i \in 1..n |-> 5 + i]
\* concentration ranges: ascending, descending, and the all-zero array
Ascending(n) == [i \in 1..n |-> i]
Descending(n) == [i \in 1..n |-> n + 1 - i]
ConcRanges == {Ascending(n) : n \in 1..MaxPoints} \cup {Descending(n) : n \in 2..MaxPoints}
ZeroRange == <<0>>
PathwayNames == {"Gs", "Gq", "Gz(Gi)", "Foo"}
KineticsValues == {"True", "False", "None"}

VARIABLES
    mode,                       \* which engine class: "activation" or "inhibition"
    ligands,                    \* _ligands (activation) / _antagonists (inhibition)
    affinities,                 \* _affinities / _antagonists_affinities
    pathway,                    \* _pathway
    receptor_conc,              \* _receptor_conc
    lig_conc_range,             \* _lig_conc_range
    ttotal,                     \* _ttotal
    nsteps,                     \* _nsteps
    binding_kinetics,           \* _binding_kinetics
    agonist,                    \* _agonist, _agonist_affinity, _agonist_submaximal_conc
    binding_kinetic_parameters, \* _binding_kinetic_parameters
    frame_set,                  \* the attribute _DefaultPathwayParametersDataFrame exists
    simulation_data,            \* self.simulation_data
    processed_data,             \* self.processed_data
    pc,                         \* position inside Run: "idle", "simulate", "store"
    r_lig,                      \* Run: index of the ligand of the outer loop
    r_idx,                      \* Run: idx of the inner loop (1-based)
    r_data,                     \* Run: the local list data
    r_sim,                      \* Run: the local dict simulation_data
    r_yout,                     \* Run: yout of the point just simulated
    err,                        \* the exception the last call raised (NoError if none)
    run_state,                  \* the run state machine of the engine
    simlog,                     \* the simulator invocations of the call in progress / last call
    response,                   \* fitModel: how the simulated peak ratio depends on the scale factor
    cal_configured,             \* fitModel: SetSimulationParameters has been called
    expratio,                   \* fitModel._expratio, in hundredths
    seed,                       \* fitModel._seed, in tenths
    maxiter,                    \* fitModel._maxiter
    seed_incrementor,           \* fitModel._seed_incrementor, in tenths
    seed_decrementor,           \* fitModel._seed_decrementor, in tenths
    iteration,                  \* fitModel._iteration
    lst_ratio,                  \* fitModel._lst_ratio
    lst_seed,                   \* fitModel._lst_seed
    fold,                       \* fitModel._fold
    cal_pc,                     \* position inside fitModel.Run: "idle" or "loop"
    cal_idx,                    \* fitModel.Run: iterations of "for idx in range(self._maxiter)" done
    cal_sims,                   \* fitModel.Run: the simulator invocations of the call
    outcome,                    \* fitModel.Run: how the last call ended
    kvalues,                    \* what the last Potency / PotencyToDict / PotencyToCSV call gave back
    constants,                  \* inhibition: the instance attribute constants (None: only the method exists)
    pathway_parameters,         \* fitModel.pathway_parameters
    target_parameter,           \* fitModel._target_parameter
    binder,                     \* the binding object: binding_data, submax_concentration, last minimization
    peak                        \* calc_ratio: the two observable courses and the peaks taken from them

config_vars == <<ligands, affinities, pathway, receptor_conc, lig_conc_range, ttotal,
                 nsteps, binding_kinetics, agonist, binding_kinetic_parameters, frame_set>>
run_vars == <<pc, r_lig, r_idx, r_data, r_sim, r_yout>>
cal_vars == <<response, cal_configured, expratio, seed, maxiter, seed_incrementor, seed_decrementor,
              iteration, lst_ratio, lst_seed, fold, cal_pc, cal_idx, cal_sims, outcome,
              pathway_parameters, target_parameter>>
engine_vars == <<mode, config_vars, simulation_data, processed_data, run_vars, err, run_state, simlog,
                 kvalues, constants>>
vars == <<engine_vars, cal_vars, peak, binder>>

NoAgonist == [name |-> None, affinity |-> None, submaximal_conc |-> None]
\* binding.__init__: no binding curve, no submaximal concentration, no minimization
NoBinding == [binding_data |-> None, submax_concentration |-> None, min_value |-> None,
              err |-> NoError]
\* calc_ratio has not been applied to any pair of courses
NoPeak == [applied |-> FALSE]

\* a keyword left out of a call, and a keyword passed with value v
Omitted == <<>>
Passed(v) == <<v>>

\* simulation.activation.__init__ / simulation.inhibition.__init__
EngineInit ==
    /\ ligands = None
    /\ affinities = None
    /\ pathway = None
    /\ receptor_conc = None
    /\ lig_conc_range = None
    /\ ttotal = None
    /\ nsteps = None
    /\ binding_kinetics = IF mode = "activation" THEN "True" ELSE "False"
    /\ agonist = NoAgonist
    /\ binding_kinetic_parameters = None
    /\ frame_set = FALSE
    /\ simulation_data = None
    /\ processed_data = None
    /\ pc = "idle"
    /\ r_lig = 0
    /\ r_idx = 0
    /\ r_data = <<>>
    /\ r_sim = <<>>
    /\ r_yout = None
    /\ err = NoError
    /\ run_state = "Created"
    /\ simlog = <<>>
    /\ kvalues = None
    /\ constants = None

\* simulation.fitModel.__init__
fitModelInit ==
    /\ cal_configured = FALSE
    /\ expratio = None
    /\ seed = None
    /\ maxiter = None
    /\ seed_incrementor = None
    /\ seed_decrementor = None
    /\ iteration = None
    /\ lst_ratio = <<>>
    /\ lst_seed = <<>>
    /\ fold = None
    /\ cal_pc = "idle"
    /\ cal_idx = 0
    /\ cal_sims = <<>>
    /\ outcome = "none"
    /\ pathway_parameters = <<>>
    /\ target_parameter = None

\* an activation or an inhibition engine is constructed
Init ==
    /\ mode \in {"activation", "inhibition"}
    /\ EngineInit
    /\ fitModelInit
    /\ response = [gain |-> 0, offset |-> 0]
    /\ peak = NoPeak
    /\ binder = NoBinding

(* ------------------------------------------------- SetSimulationParameters *)
\* simulation.activation.SetSimulationParameters(**kwargs).  Every keyword is
\* popped in source order; affinities is optional (aff_given), and a call that
\* omits binding_kinetics (bk = "omitted") raises KeyError at the pop, after
\* the earlier attributes were assigned and before the parameter frame is set.
ActivationSetSimulationParameters(l, aff_given, a, p, rc, rng, tt, ns, bk, bkp) ==
    /\ UNCHANGED <<cal_vars, kvalues, constants, peak, binder>>
    /\ pc = "idle"
    /\ mode = "activation"
    /\ ligands' = l
    /\ affinities' = IF aff_given THEN a ELSE affinities
    /\ pathway' = p
    /\ receptor_conc' = rc
    /\ lig_conc_range' = rng
    /\ ttotal' = tt
    /\ nsteps' = ns
    /\ IF bk = "omitted"
       THEN /\ err' = Error("KeyError", "binding_kinetics")
            /\ run_state' = "Created"
            /\ UNCHANGED <<binding_kinetics, binding_kinetic_parameters, frame_set>>
       ELSE /\ binding_kinetics' = bk
            /\ binding_kinetic_parameters' =
                   IF bkp = Omitted THEN binding_kinetic_parameters ELSE bkp[1]
            /\ frame_set' = TRUE
            /\ err' = NoError
            /\ run_state' = "Configured"
    /\ simlog' = <<>>
    /\ UNCHANGED <<mode, agonist, simulation_data, processed_data, run_vars>>

\* simulation.inhibition.SetSimulationParameters(**kwargs).  kin = "omitted"
\* models a call without the kinetics keyword.
InhibitionSetSimulationParameters(ag, l, a, p, rc, rng, tt, ns, kin, bkp) ==
    /\ UNCHANGED <<cal_vars, kvalues, constants, peak, binder>>
    /\ pc = "idle"
    /\ mode = "inhibition"
    /\ agonist' = ag
    /\ ligands' = l
    /\ affinities' = a
    /\ pathway' = p
    /\ receptor_conc' = rc
    /\ lig_conc_range' = rng
    /\ ttotal' = tt
    /\ nsteps' = ns
    /\ binding_kinetics' = IF kin = "omitted" THEN "False" ELSE kin
    /\ IF kin = "True"
       THEN /\ err' = Error("UnsupportedConfiguration", "kinetics")
            /\ run_state' = "Created"
            /\ UNCHANGED <<binding_kinetic_parameters, frame_set>>
       ELSE /\ binding_kinetic_parameters' =
                   IF bkp = Omitted THEN binding_kinetic_parameters ELSE bkp[1]
            /\ frame_set' = TRUE
            /\ err' = NoError
            /\ run_state' = "Configured"
    /\ simlog' = <<>>
    /\ UNCHANGED <<mode, simulation_data, processed_data, run_vars>>

TheAgonist == [name |-> Some("Ago"), affinity |-> Some(9), submaximal_conc |-> Some(4)]

\* a call with every keyword given a value
SetSimulationParameters ==
    \E l \in LigandLists, p \in PathwayNames, rng \in ConcRanges :
        \/ \E bk \in {"True", "False"} :
              ActivationSetSimulationParameters(Some(l), TRUE, Some(AffinityList(Len(l))), Some(p),
                                                Some(1), Some(rng), Some(10), Some(3), bk, Omitted)
        \/ \E kin \in {"omitted", "False"} :
              InhibitionSetSimulationParameters(TheAgonist, Some(l), Some(AffinityList(Len(l))), Some(p),
                                                Some(1), Some(rng), Some(10), Some(3), kin, Omitted)

(* ---------------------------------------------------- external collaborators *)
\* mypathway.list_of_observables of the pathway modules src/lib/pathways/<name>.py
list_of_observables(p) ==
    IF p = "Gq" THEN <<"obs_LR", "obs_IP3">> ELSE <<"obs_LR", "obs_cAMP">>

\* utils.LR_eq_conc(receptor_conc, agonist_conc, antagonist_conc, pkd_agonist, pkd_antagonist):
\* the value is kept symbolic, as the arguments of the call
LR_eq_conc(R, L, A, pKdL, pKdA) ==
    [receptor |-> R, ligand_conc |-> L, competitor_conc |-> A, ligand_pKd |-> pKdL, competitor_pKd |-> pKdA]

\* ScipyOdeSimulator(model, tspan=t).run().all : one time series per observable.
\* The integrator is a function of its inputs; the series of observable number k
\* at concentration c is a two-sample course that peaks at 10*k + c.
SimulatorOutput(p, c) ==
    LET obs == list_of_observables(p)
    IN  [o \in {obs[k] : k \in 1..Len(obs)} |->
            LET k == CHOOSE j \in 1..Len(obs) : obs[j] = o
            IN  <<0, 10 * k + c>>]

\* pl.geomspace(0.00001, ttotal, num=nsteps), kept symbolic
TimeGrid(tt, ns) == [ttotal |-> tt, nsteps |-> ns]

(* ------------------------------------------------------------ Python helpers *)
\* numpy ndarray.any()
RangeAny(rng) == \E i \in 1..Len(rng) : rng[i] # 0

\* list.index(x): the first position holding x
index(lst, x) == CHOOSE i \in 1..Len(lst) : lst[i] = x /\ \A j \in 1..(i - 1) : lst[j] # x

\* a dict as the sequence of its items in insertion order; d[k] = v keeps the
\* position of a key already present
DictKeys(d) == {d[i].key : i \in 1..Len(d)}
DictPut(d, k, v) ==
    IF k \in DictKeys(d)
    THEN [i \in 1..Len(d) |-> IF d[i].key = k THEN [key |-> k, value |-> v] ELSE d[i]]
    ELSE Append(d, [key |-> k, value |-> v])
DictGet(d, k) == (CHOOSE i \in 1..Len(d) : d[i].key = k).value

(* ------------------------------------------------------------------- Run *)
available_pathways == {"Gs", "Gi", "Gq"}
\* if self._pathway == 'Gz(Gi)': self._pathway = 'Gi'
CanonicalPathway(p) == IF p = "Gz(Gi)" THEN "Gi" ELSE p

\* the if / elif chain "#Check inputs" of simulation.activation.Run
ActivationInputError ==
    IF IsNone(ligands) THEN Error("InvalidInput", "ligands")
    ELSE IF IsNone(pathway) THEN Error("InvalidInput", "pathway")
    ELSE IF binding_kinetics = "False" /\ IsNone(affinities) THEN Error("InvalidInput", "affinities")
    ELSE IF binding_kinetics = "True" /\ IsNone(affinities) THEN NoError
    ELSE IF IsNone(lig_conc_range) THEN Error("AttributeError", "")
    ELSE IF ~RangeAny(Val(lig_conc_range)) THEN Error("InvalidInput", "lig_conc_range")
    ELSE IF IsNone(ttotal) THEN Error("InvalidInput", "ttotal")
    ELSE IF IsNone(nsteps) THEN Error("InvalidInput", "nsteps")
    ELSE IF IsNone(receptor_conc) THEN Error("InvalidInput", "receptor_conc")
    ELSE NoError

\* the if / elif chain "#Check inputs" of simulation.inhibition.Run
InhibitionInputErrorNoKineticsCheck ==
    IF IsNone(agonist.name) THEN Error("InvalidInput", "agonist")
    ELSE IF IsNone(agonist.affinity) THEN Error("InvalidInput", "agonist_affinity")
    ELSE IF IsNone(ligands) THEN Error("InvalidInput", "antagonists")
    ELSE IF IsNone(affinities) THEN Error("InvalidInput", "antagonists_affinities")
    ELSE IF IsNone(pathway) THEN Error("InvalidInput", "pathway")
    ELSE IF IsNone(lig_conc_range) THEN Error("AttributeError", "")
    ELSE IF ~RangeAny(Val(lig_conc_range)) THEN Error("InvalidInput", "lig_conc_range")
    ELSE IF IsNone(agonist.submaximal_conc) THEN Error("InvalidInput", "agonist_submaximal_conc")
    ELSE IF IsNone(ttotal) THEN Error("InvalidInput", "ttotal")
    ELSE IF IsNone(nsteps) THEN Error("InvalidInput", "nsteps")
    ELSE IF IsNone(receptor_conc) THEN Error("InvalidInput", "receptor_conc")
    ELSE NoError
InhibitionInputError ==
    IF IsNone(agonist.name) THEN Error("InvalidInput", "agonist")
    ELSE IF IsNone(agonist.affinity) THEN Error("InvalidInput", "agonist_affinity")
    ELSE IF IsNone(ligands) THEN Error("InvalidInput", "antagonists")
    ELSE IF IsNone(affinities) THEN Error("InvalidInput", "antagonists_affinities")
    ELSE IF IsNone(pathway) THEN Error("InvalidInput", "pathway")
    ELSE IF IsNone(lig_conc_range) THEN Error("AttributeError", "")
    ELSE IF ~RangeAny(Val(lig_conc_range)) THEN Error("InvalidInput", "lig_conc_range")
    ELSE IF IsNone(agonist.submaximal_conc) THEN Error("InvalidInput", "agonist_submaximal_conc")
    ELSE IF IsNone(ttotal) THEN Error("InvalidInput", "ttotal")
    ELSE IF IsNone(nsteps) THEN Error("InvalidInput", "nsteps")
    ELSE IF IsNone(receptor_conc) THEN Error("InvalidInput", "receptor_conc")
    ELSE IF binding_kinetics = "True" THEN Error("UnsupportedConfiguration", "kinetics")
    ELSE NoError

InputError == IF mode = "activation" THEN ActivationInputError ELSE InhibitionInputError

\* what Run raises before its first loop iteration, in source order: the input
\* checks, the pathway check, the read of the parameter frame, the time grid
RunSetupError ==
    IF InputError # NoError THEN InputError
    ELSE IF CanonicalPathway(Val(pathway)) \notin available_pathways THEN Error("UnknownPathway", "pathway")
    ELSE IF ~frame_set THEN Error("AttributeError", "")
    ELSE IF IsNone(ttotal) \/ IsNone(nsteps) THEN Error("TypeError", "")
    ELSE NoError

\* an exception leaves Run: the locals are dropped, self.simulation_data is not assigned
Raise(e) ==
    /\ err' = e
    /\ run_state' = "Failed"
    /\ pc' = "idle"
    /\ r_lig' = 0
    /\ r_idx' = 0
    /\ r_data' = <<>>
    /\ r_sim' = <<>>
    /\ r_yout' = None

\* Run, from the call to the first iteration of "for ligand in self._ligands"
RunBegin ==
    /\ UNCHANGED <<cal_vars, kvalues, constants, peak, binder>>
    /\ pc = "idle"
    /\ simlog' = <<>>
    /\ pathway' = IF InputError = NoError THEN Some(CanonicalPathway(Val(pathway))) ELSE pathway
    /\ IF RunSetupError # NoError
       THEN Raise(RunSetupError)
       ELSE /\ err' = NoError
            /\ run_state' = "Running"
            /\ pc' = "loop"
            /\ r_lig' = 1
            /\ r_idx' = 1
            /\ r_data' = <<>>
            /\ r_sim' = <<>>
            /\ r_yout' = None
    /\ UNCHANGED <<mode, ligands, affinities, receptor_conc, lig_conc_range, ttotal, nsteps,
                   binding_kinetics, agonist, binding_kinetic_parameters, frame_set,
                   simulation_data, processed_data>>

\* ligand_conc = self._lig_conc_range[idx]
PointConcReversed(rng, idx) == rng[Len(rng) + 1 - idx]
PointConc(rng, idx) == rng[idx]

\* d1 = {'ligand_conc': ..., 'time': t} updated with yout[o] for every o of
\* mypathway.list_of_observables
MakeRecordSkippingLast(p, ligand_conc, t, yout) ==
    LET obs == list_of_observables(p)
    IN  [ligand_conc |-> ligand_conc, time |-> t,
         obs |-> [o \in {obs[k] : k \in 1..(Len(obs) - 1)} |-> yout[o]]]
MakeRecord(p, ligand_conc, t, yout) ==
    LET obs == list_of_observables(p)
    IN  [ligand_conc |-> ligand_conc, time |-> t,
         obs |-> [o \in {obs[k] : k \in 1..Len(obs)} |-> yout[o]]]

\* the arguments of the equilibrium solver call of the current point
SolverCall(ligand, ligand_conc) ==
    LET pKd == Val(affinities)[index(Val(ligands), ligand)]
    IN  IF mode = "activation"
        THEN LR_eq_conc(Val(receptor_conc), ligand_conc, 0, pKd, 0)
        ELSE LR_eq_conc(Val(receptor_conc), Val(agonist.submaximal_conc), ligand_conc,
                        Val(agonist.affinity), pKd)

\* the default table src/lib/pathways/<pathway>_parameters.csv, as the dict
\* set_index('Parameter').iloc[:,0].to_dict() makes of it
DefaultPathwayParameters(p) ==
    [n \in {"k_on", "k_off"} |-> IF n = "k_off" THEN 2 ELSE IF p = "Gq" THEN 3 ELSE 1]

\* {**d, **o}
Merge(d, o) == [n \in DOMAIN d \cup DOMAIN o |-> IF n \in DOMAIN o THEN o[n] ELSE d[n]]

\* self._PathwayParameters as "#Get default pathway parameters" of Run leaves it:
\* activation merges _binding_kinetic_parameters when it is not None, inhibition
\* reads the default table only
PathwayParameters ==
    IF mode = "activation" /\ ~IsNone(binding_kinetic_parameters)
    THEN Merge(DefaultPathwayParameters(Val(pathway)), Val(binding_kinetic_parameters))
    ELSE DefaultPathwayParameters(Val(pathway))

\* the keyword arguments **parameters of mypathway.network at one point
NetworkParameters(kinetics, ligand_conc) ==
    IF kinetics
    THEN Merge(PathwayParameters,
               [n \in {"R_init", "L_init"} |-> IF n = "R_init" THEN receptor_conc ELSE Some(ligand_conc)])
    ELSE Merge(PathwayParameters, [n \in {"R_init"} |-> receptor_conc])

\* one simulator invocation: mypathway.network(...) and ScipyOdeSimulator(...).run()
Invocation(ligand_conc, kinetics, LR) ==
    [lig |-> r_lig, idx |-> r_idx, ligand_conc |-> ligand_conc, kinetics |-> kinetics, LR |-> LR,
     R_init |-> receptor_conc, stored |-> Len(r_data), flag |-> binding_kinetics,
     parameters |-> NetworkParameters(kinetics, ligand_conc)]

\* an exception of the integrator is not caught anywhere in Run: it leaves Run
SimulationFailsSwallowed ==
    /\ err' = Error("SimulationFailure", "")
    /\ r_yout' = Some([o \in DOMAIN SimulatorOutput(Val(pathway), 0) |-> <<0>>])
    /\ pc' = "store"
    /\ UNCHANGED <<r_lig, r_idx, r_data, r_sim, run_state>>
SimulationFails == Raise(Error("SimulationFailure", ""))

\* the body of "for idx in range(len(self._lig_conc_range))" up to yout = simres.all:
\* the model is built and integrated; the integrator returns or raises
SimulatePoint ==
    /\ UNCHANGED <<cal_vars, kvalues, constants, peak, binder>>
    /\ pc = "loop"
    /\ r_lig <= Len(Val(ligands))
    /\ IF IsNone(lig_conc_range)
       THEN /\ Raise(Error("TypeError", ""))
            /\ UNCHANGED simlog
       ELSE LET ligand == Val(ligands)[r_lig]
                ligand_conc == PointConc(Val(lig_conc_range), r_idx)
            IN  IF mode = "activation" /\ binding_kinetics = "None"
                THEN /\ Raise(Error("UnboundLocalError", ""))
                     /\ UNCHANGED simlog
                ELSE /\ simlog' = Append(simlog,
                            IF mode = "activation" /\ binding_kinetics = "True"
                            THEN Invocation(ligand_conc, TRUE, None)
                            ELSE Invocation(ligand_conc, FALSE, Some(SolverCall(ligand, ligand_conc))))
                     /\ \/ /\ r_yout' = Some(SimulatorOutput(Val(pathway), ligand_conc))
                           /\ pc' = "store"
                           /\ UNCHANGED <<r_lig, r_idx, r_data, r_sim, err, run_state>>
                        \/ SimulationFails
    /\ UNCHANGED <<mode, config_vars, simulation_data, processed_data>>

\* the label stored with a ligand's records
Label(ligand_name) ==
    IF mode = "activation" THEN <<ligand_name>> ELSE <<Val(agonist.name), ligand_name>>

\* self.simulation_data while the loops run: the entries go into the local dict
\* simulation_data = {} of Run, the attribute is not written
HeldWhileRunningPartial(local) == Some(local)
HeldWhileRunning(local) == simulation_data

\* the rest of the loop body: d1 is filled with every observable and appended to
\* data; after the last point the ligand's entry is written into the local dict
StorePoint ==
    /\ UNCHANGED <<cal_vars, kvalues, constants, peak, binder>>
    /\ pc = "store"
    /\ LET ligand_name == splitext(Val(ligands)[r_lig])
           d1 == MakeRecord(Val(pathway), simlog[Len(simlog)].ligand_conc,
                            TimeGrid(Val(ttotal), Val(nsteps)), Val(r_yout))
           data == Append(r_data, d1)
           entries == DictPut(r_sim, ligand_name, [sim_data |-> data, label |-> Label(ligand_name)])
       IN  IF r_idx < Len(Val(lig_conc_range))
           THEN /\ r_data' = data
                /\ r_idx' = r_idx + 1
                /\ simulation_data' = HeldWhileRunning(r_sim)
                /\ UNCHANGED <<r_lig, r_sim>>
           ELSE /\ r_sim' = entries
                /\ simulation_data' = HeldWhileRunning(entries)
                /\ r_lig' = r_lig + 1
                /\ r_idx' = 1
                /\ r_data' = <<>>
    /\ pc' = "loop"
    /\ r_yout' = None
    /\ UNCHANGED <<mode, config_vars, processed_data, err, run_state, simlog>>

\* self.simulation_data = simulation_data ; return
RunEnd ==
    /\ UNCHANGED <<cal_vars, kvalues, constants, peak, binder>>
    /\ pc = "loop"
    /\ r_lig > Len(Val(ligands))
    /\ simulation_data' = Some(r_sim)
    /\ run_state' = "Completed"
    /\ pc' = "idle"
    /\ r_lig' = 0
    /\ r_idx' = 0
    /\ r_data' = <<>>
    /\ r_sim' = <<>>
    /\ r_yout' = None
    /\ UNCHANGED <<mode, config_vars, processed_data, err, simlog>>

Next ==
    \/ SetSimulationParameters
    \/ RunBegin
    \/ SimulatePoint
    \/ StorePoint
    \/ RunEnd

Spec == Init /\ [][Next]_vars

(* -------------------------------------------------------------- Analysis *)
RECURSIVE SeqMax(_)
\* np.amax(series)
SeqMax(series) ==
    IF Len(series) = 1 THEN series[1]
    ELSE LET m == SeqMax(Tail(series)) IN IF series[1] >= m THEN series[1] ELSE m

\* if self.simulation_data == None: raise TypeError('There is no simulation data. ...')
NoSimulationData == IsNone(simulation_data)

\* the if / elif chain on self._pathway inside the ligand loop of Analysis: the
\* observable that is reduced and the transformation applied before minmax_scale;
\* "" when the chain ends in the raise of its else branch
ReductionRuleAlwaysDirect(p) ==
    IF p = Some("Gi") \/ p = Some("Gz(Gi)") THEN [metabolite |-> "obs_cAMP", transform |-> "max"]
    ELSE IF p = Some("Gs") THEN [metabolite |-> "obs_cAMP", transform |-> "max"]
    ELSE IF p = Some("Gq") THEN [metabolite |-> "obs_IP3", transform |-> "max"]
    ELSE [metabolite |-> "", transform |-> ""]
ReductionRule(p) ==
    IF p = Some("Gi") \/ p = Some("Gz(Gi)") THEN [metabolite |-> "obs_cAMP", transform |-> "1-max"]
    ELSE IF p = Some("Gs") THEN [metabolite |-> "obs_cAMP", transform |-> "max"]
    ELSE IF p = Some("Gq") THEN [metabolite |-> "obs_IP3", transform |-> "max"]
    ELSE [metabolite |-> "", transform |-> ""]

\* what the body of "for ligand in self.simulation_data" raises for one entry,
\* the curve fit apart
EntryError(entry) ==
    IF ReductionRule(pathway).metabolite = "" THEN Error("UnknownPathway", "pathway")
    ELSE IF Len(Val(lig_conc_range)) > Len(entry.sim_data) THEN Error("IndexError", "")
    ELSE IF \E i \in 1..Len(Val(lig_conc_range)) :
                ReductionRule(pathway).metabolite \notin DOMAIN entry.sim_data[i].obs
         THEN Error("KeyError", "")
    ELSE NoError

\* the array handed to minmax_scale: 1-np.array(metabolite_conc_raw) for the
\* inverse readout, np.array(metabolite_conc_raw) otherwise
Transformed(transform, raw) ==
    [i \in 1..Len(raw) |-> IF transform = "1-max" THEN 1 - raw[i] ELSE raw[i]]

\* the keys of dose[ligand] in insertion order: the potency is 'EC50 (uM)' on
\* the activation engine and 'IC50 (uM)' on the inhibition engine
DoseKeys ==
    <<"raw_data", "normalized_data", "fitted_data",
      IF mode = "activation" THEN "EC50 (uM)" ELSE "IC50 (uM)",
      IF mode = "activation" THEN "pEC50" ELSE "pIC50">>

\* dose[ligand] of one entry.  raw_data holds the reduced raw values;
\* normalized_data the array that is normalized (minmax_scale is kept symbolic)
\* and the transformation that produced it; the fit and the two potency values
\* are kept symbolic, as the data curve_fit is given
Dose(entry) ==
    LET x == Val(lig_conc_range)
        raw == [i \in 1..Len(x) |-> SeqMax(entry.sim_data[i].obs[ReductionRule(pathway).metabolite])]
        to_normalize == Transformed(ReductionRule(pathway).transform, raw)
        fit == [x |-> x, y |-> to_normalize]
    IN  [k \in {DoseKeys[j] : j \in 1..Len(DoseKeys)} |->
            IF k = "raw_data" THEN [x |-> x, y |-> raw, label |-> entry.label]
            ELSE IF k = "normalized_data"
                 THEN [x |-> x, to_normalize |-> to_normalize,
                       transform |-> ReductionRule(pathway).transform,
                       metabolite |-> ReductionRule(pathway).metabolite, label |-> entry.label]
            ELSE IF k = "fitted_data" THEN [fit_of |-> fit, label |-> entry.label]
            ELSE IF k = DoseKeys[4] THEN [popt |-> "EC50", rounded |-> 5, fit_of |-> fit]
            ELSE [popt |-> "-log10(EC50*1E-6)", rounded |-> 2, fit_of |-> fit]]

\* what Analysis raises before any curve fit, in source order
AnalysisError ==
    IF NoSimulationData THEN Error("NoSimulationData", "")
    ELSE IF IsNone(lig_conc_range) THEN Error("AttributeError", "")
    ELSE IF Len(Val(simulation_data)) = 0 THEN NoError
    ELSE EntryError(Val(simulation_data)[1].value)

\* simulation.activation.Analysis / simulation.inhibition.Analysis: the whole
\* call.  curve_fit of any entry may raise; self.processed_data is assigned
\* after the last entry only.
Analysis ==
    /\ UNCHANGED <<cal_vars, kvalues, constants, peak, binder>>
    /\ pc = "idle"
    /\ simlog' = <<>>
    /\ IF AnalysisError # NoError
       THEN /\ err' = AnalysisError
            /\ UNCHANGED processed_data
       ELSE \/ /\ err' = NoError
               /\ processed_data' =
                      Some([e \in 1..Len(Val(simulation_data)) |->
                               [key |-> Val(simulation_data)[e].key,
                                value |-> Dose(Val(simulation_data)[e].value)]])
            \/ /\ Len(Val(simulation_data)) > 0
               /\ err' = Error("FitDivergence", "")
               /\ UNCHANGED processed_data
    /\ UNCHANGED <<mode, config_vars, simulation_data, run_vars, run_state>>

\* the calls drawn when Analysis is exercised: lists of at most MaxLigands - 1
\* ligands, ascending ranges, every pathway name
AnalysisPathwayNames == PathwayNames \cup {"Gi"}
SetSimulationParametersForAnalysis ==
    \E l \in SeqsUpTo({"B"}, MaxLigands - 1), p \in AnalysisPathwayNames, n \in 1..MaxPoints :
        \/ \E bk \in {"True", "False"} :
              ActivationSetSimulationParameters(Some(l), TRUE, Some(AffinityList(Len(l))), Some(p),
                                                Some(1), Some(Ascending(n)), Some(10), Some(3), bk, Omitted)
        \/ InhibitionSetSimulationParameters(TheAgonist, Some(l), Some(AffinityList(Len(l))), Some(p),
                                             Some(1), Some(Ascending(n)), Some(10), Some(3), "omitted", Omitted)

NextAnalysis ==
    \/ SetSimulationParametersForAnalysis
    \/ RunBegin
    \/ SimulatePoint
    \/ StorePoint
    \/ RunEnd
    \/ Analysis

SpecAnalysis == Init /\ [][NextAnalysis]_vars

(* ------------------------------------- Potency, PotencyToDict, PotencyToCSV *)
\* list(self.processed_data[ligand].keys())[-j]
KeyFromFront(keys, j) == keys[j]
KeyFromEnd(keys, j) == keys[Len(keys) + 1 - j]

\* kvalues[ligand] = {IC50: IC50_value, pIC50: pIC50_value}
PotencyEntry(dose) ==
    LET IC50 == KeyFromEnd(DoseKeys, 2)
        pIC50 == KeyFromEnd(DoseKeys, 1)
    IN  [k \in {IC50, pIC50} |-> dose[k]]

\* PotencyToDict of processed data d: one entry per ligand, in the order of d
PotencyDict(d) == [e \in 1..Len(d) |-> [key |-> d[e].key, value |-> PotencyEntry(d[e].value)]]

\* the rows df.to_csv(path, index=False) writes: the index (the ligand names)
\* is left out
CsvRows(kv) == [e \in 1..Len(kv) |-> kv[e].value]

PotencyCalls == {"Potency", "PotencyToDict", "PotencyToCSV"}

\* one of the three calls: each starts with PotencyToDict, which raises when
\* self.processed_data == None; Potency turns the dict into a DataFrame indexed
\* by ligand, PotencyToCSV writes the DataFrame without its index
PotencyCall(via) ==
    /\ UNCHANGED <<cal_vars, constants, peak, binder>>
    /\ pc = "idle"
    /\ simlog' = <<>>
    /\ IF IsNone(processed_data)
       THEN /\ err' = Error("SimulationUnprocessed", "")
            /\ kvalues' = None
       ELSE /\ err' = NoError
            /\ kvalues' = Some([call |-> via,
                                data |-> IF via = "PotencyToCSV"
                                         THEN CsvRows(PotencyDict(Val(processed_data)))
                                         ELSE PotencyDict(Val(processed_data))])
    /\ UNCHANGED <<mode, config_vars, simulation_data, processed_data, run_vars, run_state>>

Potency == \E via \in PotencyCalls : PotencyCall(via)

\* the calls drawn when the potency calls are exercised
SetSimulationParametersForPotency ==
    \E l \in LigandLists :
        \/ ActivationSetSimulationParameters(Some(l), TRUE, Some(AffinityList(Len(l))), Some("Gs"),
                                             Some(1), Some(<<1>>), Some(10), Some(3), "False", Omitted)
        \/ InhibitionSetSimulationParameters(TheAgonist, Some(l), Some(AffinityList(Len(l))), Some("Gs"),
                                             Some(1), Some(<<1>>), Some(10), Some(3), "omitted", Omitted)

NextPotency ==
    \/ SetSimulationParametersForPotency
    \/ RunBegin
    \/ SimulatePoint
    \/ StorePoint
    \/ RunEnd
    \/ Analysis
    \/ Potency

SpecPotency == Init /\ [][NextPotency]_vars

(* --------------------------------------- calls with undefined (None) keywords *)
ActivationFields == {"ligands", "affinities", "pathway", "receptor_conc", "lig_conc_range",
                     "ttotal", "nsteps"}
InhibitionFields == (ActivationFields \ {"ligands", "affinities"}) \cup
                    {"antagonists", "antagonists_affinities", "agonist", "agonist_affinity",
                     "agonist_submaximal_conc"}
UndefinedSets(fields) == {U \in SUBSET fields : Cardinality(U) <= MaxUndefined}
\* the keyword value: None when the caller leaves the field undefined
Given(field, U, v) == IF field \in U THEN None ELSE Some(v)

\* a call in which the keywords of U are None; with every keyword defined the
\* range may also be the all-zero array
SetSimulationParametersUndefined ==
    \/ \E U \in UndefinedSets(ActivationFields), bk \in KineticsValues \cup {"omitted"},
          rng \in {<<1>>, ZeroRange} :
          /\ rng = ZeroRange => U = {}
          /\ ActivationSetSimulationParameters(
                 Given("ligands", U, <<"B">>), TRUE, Given("affinities", U, AffinityList(1)),
                 Given("pathway", U, "Gs"), Given("receptor_conc", U, 1),
                 Given("lig_conc_range", U, rng), Given("ttotal", U, 10), Given("nsteps", U, 3), bk, Omitted)
    \/ \E U \in UndefinedSets(InhibitionFields), kin \in KineticsValues \cup {"omitted"},
          rng \in {<<1>>, ZeroRange} :
          /\ rng = ZeroRange => U = {}
          /\ InhibitionSetSimulationParameters(
                 [name |-> Given("agonist", U, "Ago"), affinity |-> Given("agonist_affinity", U, 9),
                  submaximal_conc |-> Given("agonist_submaximal_conc", U, 4)],
                 Given("antagonists", U, <<"B">>), Given("antagonists_affinities", U, AffinityList(1)),
                 Given("pathway", U, "Gs"), Given("receptor_conc", U, 1),
                 Given("lig_conc_range", U, rng), Given("ttotal", U, 10), Given("nsteps", U, 3), kin, Omitted)

NextValidation ==
    \/ SetSimulationParametersUndefined
    \/ RunBegin
    \/ SimulatePoint
    \/ StorePoint
    \/ RunEnd

SpecValidation == Init /\ [][NextValidation]_vars

(* ------------------------------------------ lists that repeat a ligand name *)
\* the calls drawn when a name may occur more than once in the list: every list
\* over two names, one distinct pKd per position, the equilibrium solver in use
SetSimulationParametersRepeated ==
    \E l \in SeqsUpTo({"B", "D"}, MaxLigands), n \in 1..MaxPoints :
        \/ ActivationSetSimulationParameters(Some(l), TRUE, Some(AffinityList(Len(l))), Some("Gs"),
                                             Some(1), Some(Ascending(n)), Some(10), Some(3), "False", Omitted)
        \/ InhibitionSetSimulationParameters(TheAgonist, Some(l), Some(AffinityList(Len(l))), Some("Gs"),
                                             Some(1), Some(Ascending(n)), Some(10), Some(3), "omitted", Omitted)

NextRepeated ==
    \/ SetSimulationParametersRepeated
    \/ RunBegin
    \/ SimulatePoint
    \/ StorePoint
    \/ RunEnd

SpecRepeated == Init /\ [][NextRepeated]_vars

(* --------------------------------------------- calls that override parameters *)
\* the override mappings a caller passes as binding_kinetic_parameters
Overrides == {[n \in {"k_on"} |-> 7]}
OverrideKeywords == {Omitted, Passed(None)} \cup {Passed(Some(o)) : o \in Overrides}

SetSimulationParametersOverriding ==
    \E p \in {"Gs", "Gq"}, n \in 1..MaxPoints, bkp \in OverrideKeywords :
        \/ \E bk \in {"True", "False"} :
              ActivationSetSimulationParameters(Some(<<"B">>), TRUE, Some(AffinityList(1)), Some(p),
                                                Some(1), Some(Ascending(n)), Some(10), Some(3), bk, bkp)
        \/ InhibitionSetSimulationParameters(TheAgonist, Some(<<"B">>), Some(AffinityList(1)), Some(p),
                                             Some(1), Some(Ascending(n)), Some(10), Some(3), "omitted", bkp)

NextOverriding ==
    \/ SetSimulationParametersOverriding
    \/ RunBegin
    \/ SimulatePoint
    \/ StorePoint
    \/ RunEnd

SpecOverriding == Init /\ [][NextOverriding]_vars

(* ------------------------------------------------ fitModel: the search *)
\* Numbers are decimal fixed point: ratios in hundredths, seeds in tenths.
\* abs(decimal.Decimal(str(self._expratio).rstrip('0')).as_tuple().exponent):
\* the number of decimal digits of the target ratio
Decimals(t) == IF t % 100 = 0 THEN 0 ELSE IF t % 10 = 0 THEN 1 ELSE 2

\* round(): unit is the weight of the last digit kept; ties go to the even digit
RoundAtTruncating(x, unit) == (x \div unit) * unit
RoundAt(x, unit) ==
    LET q == x \div unit
        r == x - q * unit
    IN  IF 2 * r < unit THEN q * unit
        ELSE IF 2 * r > unit THEN (q + 1) * unit
        ELSE IF q % 2 = 0 THEN q * unit ELSE (q + 1) * unit

\* the weight, in hundredths, of the last of nd decimal digits
RatioUnit(nd) == IF nd = 0 THEN 100 ELSE IF nd = 1 THEN 10 ELSE 1
\* the weight, in tenths, of the last of nd decimal digits of a seed
SeedUnit(nd) == IF nd = 0 THEN 10 ELSE 1

\* vmax_obs_curve_2 / vmax_obs_curve_1 of calc_ratio for the scale factor s: the
\* integrator is a function of its inputs, here one of a family of linear responses
RawRatio(s) == response.offset + response.gain * s
Responses == [gain : {0, 5, 10}, offset : {0, 50, 98}]

\* obs_ratio = round(vmax_obs_curve_2/vmax_obs_curve_1, <decimal digits of expratio>)
calc_ratio(s) == RoundAt(RawRatio(s), RatioUnit(Decimals(Val(expratio))))

\* for idx in range(self._maxiter)
LoopContinuesOnceMore(idx, n) == idx <= n
LoopContinues(idx, n) == idx < n

\* if self.obs_ratio == self._expratio
RatioMatchesOrExceeds(r, t) == r >= t
RatioMatches(r, t) == r = t

\* elif self.obs_ratio < self._expratio: self._seed += self._seed_incrementor
\* else: self._seed -= self._seed_decrementor
NextSeedAlwaysUp(s, obs_ratio) == s + Val(seed_incrementor)
NextSeed(s, obs_ratio) ==
    IF obs_ratio < Val(expratio) THEN s + Val(seed_incrementor) ELSE s - Val(seed_decrementor)

\* mypathway.defaultParameters of the pathway module src/lib/pathways/<name>.py;
\* the pathway of the fitModel object is kept fixed
defaultParameters == DefaultPathwayParameters("Gs")

\* self._PathwayParameters of fitModel.Run:
\* {**<default table>.to_dict(), **self.pathway_parameters}
fitModelPathwayParameters == Merge(DefaultPathwayParameters("Gs"), pathway_parameters)

\* parameter values are written in tenths wherever a seed (in tenths) scales one
InTenths(d) == [n \in DOMAIN d |-> 10 * d[n]]

\* self.new_pathway_parameters = {**self._PathwayParameters,
\*     **{self._target_parameter: mypathway.defaultParameters[self._target_parameter]*self._seed}}
new_pathway_parameters(s) ==
    Merge(InTenths(fitModelPathwayParameters),
          [n \in {Val(target_parameter)} |-> defaultParameters[Val(target_parameter)] * s])

\* "Simulation 1": mypathway.network(LR=None, kinetics=True, **self._PathwayParameters)
BaselineSimulation ==
    [kind |-> "baseline", seed |-> None, parameters |-> InTenths(fitModelPathwayParameters)]

\* the simulator invocations of one calc_ratio call: "Simulation 2" only, the
\* baseline self.simres1 is read, not recomputed
TrialSimulationsWithBaseline(s) ==
    <<BaselineSimulation, [kind |-> "trial", seed |-> s, parameters |-> new_pathway_parameters(Val(s))]>>
TrialSimulations(s) ==
    <<[kind |-> "trial", seed |-> s, parameters |-> new_pathway_parameters(Val(s))]>>

\* simulation.fitModel.SetSimulationParameters(**kwargs); pp is the keyword
\* pathway_parameters
fitModelSetSimulationParametersWith(pp) ==
    /\ cal_pc = "idle"
    /\ ~cal_configured
    /\ cal_configured' = TRUE
    /\ pathway_parameters' = IF pp = Omitted THEN pathway_parameters ELSE pp[1]
    /\ UNCHANGED <<response, expratio, seed, maxiter, seed_incrementor, seed_decrementor, iteration,
                   lst_ratio, lst_seed, fold, cal_pc, cal_idx, cal_sims, outcome, target_parameter>>
    /\ UNCHANGED <<engine_vars, peak, binder>>

\* a call with ttotal, nsteps, pathway and observable only
fitModelSetSimulationParameters == fitModelSetSimulationParametersWith(Omitted)

\* simulation.fitModel.Run(**kwargs) up to the loop: the keywords are stored,
\* the parameters are read, the baseline ("Simulation 1") is integrated
fitModelRunBegin(er, sd, mi, inc, dec, tp) ==
    /\ cal_pc = "idle"
    /\ target_parameter' = Some(tp)
    /\ expratio' = Some(er)
    /\ seed' = Some(sd)
    /\ maxiter' = Some(mi)
    /\ seed_incrementor' = Some(inc)
    /\ seed_decrementor' = Some(dec)
    /\ IF ~cal_configured
       THEN /\ outcome' = "failed"
            /\ cal_sims' = <<>>
            /\ UNCHANGED <<iteration, lst_ratio, lst_seed, cal_pc, cal_idx>>
       ELSE /\ cal_sims' = <<BaselineSimulation>>
            /\ \/ /\ outcome' = "failed"
                  /\ UNCHANGED <<iteration, lst_ratio, lst_seed, cal_pc, cal_idx>>
               \/ /\ outcome' = "running"
                  /\ iteration' = Some(1)
                  /\ lst_ratio' = <<>>
                  /\ lst_seed' = <<>>
                  /\ cal_pc' = "loop"
                  /\ cal_idx' = 0
    /\ UNCHANGED <<response, cal_configured, fold, pathway_parameters>>
    /\ UNCHANGED <<engine_vars, peak, binder>>

\* one iteration of the loop: the perturbed run ("Simulation 2") is integrated,
\* the ratio is compared with the target, the pair is recorded, the seed stepped
fitModelTrial ==
    /\ cal_pc = "loop"
    /\ LoopContinues(cal_idx, Val(maxiter))
    /\ cal_sims' = cal_sims \o TrialSimulations(seed)
    /\ \/ /\ outcome' = "failed"
          /\ cal_pc' = "idle"
          /\ UNCHANGED <<seed, iteration, lst_ratio, lst_seed, fold, cal_idx>>
       \/ LET obs_ratio == calc_ratio(Val(seed))
          IN  /\ lst_ratio' = Append(lst_ratio, obs_ratio)
              /\ lst_seed' = Append(lst_seed, Val(seed))
              /\ IF RatioMatches(obs_ratio, Val(expratio))
                 THEN /\ fold' = Some(RoundAt(Val(seed), SeedUnit(Decimals(Val(expratio)))))
                      /\ outcome' = "converged"
                      /\ cal_pc' = "idle"
                      /\ UNCHANGED <<seed, iteration, cal_idx>>
                 ELSE /\ iteration' = Some(Val(iteration) + 1)
                      /\ seed' = Some(NextSeed(Val(seed), obs_ratio))
                      /\ cal_idx' = cal_idx + 1
                      /\ UNCHANGED <<fold, outcome, cal_pc>>
    /\ UNCHANGED <<response, cal_configured, expratio, maxiter, seed_incrementor, seed_decrementor,
                   pathway_parameters, target_parameter>>
    /\ UNCHANGED <<engine_vars, peak, binder>>

\* the loop has run maxiter times without a break: return
fitModelReturn ==
    /\ cal_pc = "loop"
    /\ ~LoopContinues(cal_idx, Val(maxiter))
    /\ outcome' = "exhausted"
    /\ cal_pc' = "idle"
    /\ UNCHANGED <<response, cal_configured, expratio, seed, maxiter, seed_incrementor,
                   seed_decrementor, iteration, lst_ratio, lst_seed, fold, cal_idx, cal_sims,
                   pathway_parameters, target_parameter>>
    /\ UNCHANGED <<engine_vars, peak, binder>>

ExpRatios == {100, 150, 125}
Seeds == {10}
Steps == {1, 5}

fitModelRun ==
    \E er \in ExpRatios, sd \in Seeds, mi \in 0..MaxIter, inc \in Steps, dec \in Steps :
        fitModelRunBegin(er, sd, mi, inc, dec, "k_on")

\* a fitModel object is constructed; the response of the network is any of Responses
InitCalibration ==
    /\ mode = "fitModel"
    /\ EngineInit
    /\ fitModelInit
    /\ response \in Responses
    /\ peak = NoPeak
    /\ binder = NoBinding

NextCalibration ==
    \/ fitModelSetSimulationParameters
    \/ fitModelRun
    \/ fitModelTrial
    \/ fitModelReturn

SpecCalibration == InitCalibration /\ [][NextCalibration]_vars

\* every simulator call returns or raises, and Run then goes on
SpecCalibrationFair ==
    SpecCalibration /\ WF_vars(fitModelTrial) /\ WF_vars(fitModelReturn)

(* ------------------------------------- fitModel: the peaks of calc_ratio *)
\* Times are in halves of a time unit: sample k of a course is taken at time k/2.
simtime(n) == [k \in 1..n |-> k]
\* int(self.new_pathway_parameters['time_in']), on a time given in halves
IntOfTime(t) == (t \div 2) * 2

\* np.take(obs, np.where(self.simtime > threshold))[0]: the samples whose time
\* exceeds the threshold, in order
TakeAfter(obs, threshold) ==
    LET kept == {k \in 1..Len(obs) : simtime(Len(obs))[k] > threshold}
        first == Len(obs) - Cardinality(kept)
    IN  [j \in 1..Cardinality(kept) |-> obs[first + j]]

\* the window of calc_ratio: after int(time_in) when 'time_in' is among the
\* parameters, after time 0 otherwise
Window(obs, time_in) ==
    IF IsNone(time_in) THEN TakeAfter(obs, 0) ELSE TakeAfter(obs, IntOfTime(Val(time_in)))

\* scipy.signal.find_peaks(x) without conditions: the samples l..r form a flat
\* top with a strictly lower sample on either side; the first and the last
\* sample never belong to a peak
IsPeakPlateau(x, l, r) ==
    /\ 1 < l
    /\ l <= r
    /\ r < Len(x)
    /\ \A j \in l..r : x[j] = x[l]
    /\ x[l - 1] < x[l]
    /\ x[r + 1] < x[r]
\* the indices find_peaks returns: the middle of every flat top, rounded down
find_peaks(x) ==
    {(lr[1] + lr[2]) \div 2 :
        lr \in {q \in (1..Len(x)) \X (1..Len(x)) : IsPeakPlateau(x, q[1], q[2])}}

\* obs_curve[obs_peaks][-1]: the value at the last peak; indexing the empty
\* selection raises IndexError
LastPeakValue(curve) ==
    LET peaks == find_peaks(curve)
    IN  IF peaks = {} THEN None
        ELSE Some(curve[CHOOSE i \in peaks : \A j \in peaks : j <= i])

\* the courses of an observable the simulator can return, the baseline courses
\* and the values of 'time_in' (None: the parameter is absent)
Courses == [1..MaxSamples -> 0..2]
BaselineCourses ==
    {[k \in 1..MaxSamples |-> IF k = 2 THEN 2 ELSE 1],
     [k \in 1..MaxSamples |-> IF k < 3 THEN k - 1 ELSE 2],
     [k \in 1..MaxSamples |-> IF k % 2 = 0 THEN 2 ELSE (k \div 2) % 2]}
TimesIn == {None} \cup {Some(t) : t \in 0..3}

\* the analysis part of calc_ratio applied to the courses of the baseline run
\* (obs_1) and of the perturbed run (obs_2)
calc_ratio_peaks ==
    /\ ~peak.applied
    /\ LET vmax_1 == LastPeakValue(Window(peak.obs_1, peak.time_in))
           vmax_2 == LastPeakValue(Window(peak.obs_2, peak.time_in))
       IN  peak' = [applied |-> TRUE, obs_1 |-> peak.obs_1, obs_2 |-> peak.obs_2,
                    time_in |-> peak.time_in,
                    vmax_obs_curve_1 |-> vmax_1,
                    vmax_obs_curve_2 |-> IF IsNone(vmax_1) THEN None ELSE vmax_2,
                    err |-> IF IsNone(vmax_1) \/ IsNone(vmax_2)
                            THEN Error("IndexError", "") ELSE NoError]
    /\ UNCHANGED <<engine_vars, cal_vars, binder>>

\* a fitModel object whose two runs returned any of the courses
InitPeaks ==
    /\ mode = "fitModel"
    /\ EngineInit
    /\ fitModelInit
    /\ response = [gain |-> 0, offset |-> 0]
    /\ peak \in [applied : {FALSE}, obs_1 : BaselineCourses, obs_2 : Courses, time_in : TimesIn]
    /\ binder = NoBinding

NextPeaks == calc_ratio_peaks

SpecPeaks == InitPeaks /\ [][NextPeaks]_vars

(* ------------------------------------- calibration with caller's overrides *)
\* the pathway_parameters dicts a caller passes: one that overrides the target
\* parameter of the search and one that overrides another parameter
CalibrationOverrides == {[n \in {"k_on"} |-> 7], [n \in {"k_off"} |-> 5]}

fitModelSetSimulationParametersOverriding ==
    \E pp \in {Omitted} \cup {Passed(o) : o \in CalibrationOverrides} :
        fitModelSetSimulationParametersWith(pp)

\* Run with a target of 1 or 1.5 from the seeds 1.0 and 2.0
fitModelRunOverriding ==
    \E er \in {100, 150}, sd \in {10, 20}, mi \in 1..MaxIter :
        fitModelRunBegin(er, sd, mi, 5, 5, "k_on")

NextCalibrationOverriding ==
    \/ fitModelSetSimulationParametersOverriding
    \/ fitModelRunOverriding
    \/ fitModelTrial
    \/ fitModelReturn

SpecCalibrationOverriding == InitCalibration /\ [][NextCalibrationOverriding]_vars

(* ------------------------------------------------- inhibition: constants() *)
\* the call <engine>.constants().  The class defines the method constants; its
\* last statement but one, self.constants = kvalues, gives the instance an
\* attribute of the same name, and the attribute is what a later
\* <engine>.constants finds: a dict, which is not callable
CallConstants ==
    /\ UNCHANGED <<cal_vars, peak, binder>>
    /\ pc = "idle"
    /\ mode = "inhibition"
    /\ simlog' = <<>>
    /\ IF ~IsNone(constants)
       THEN /\ err' = Error("TypeError", "constants")
            /\ kvalues' = None
            /\ UNCHANGED constants
       ELSE IF IsNone(processed_data)
       THEN /\ err' = Error("SimulationUnprocessed", "")
            /\ kvalues' = None
            /\ UNCHANGED constants
       ELSE /\ err' = NoError
            /\ kvalues' = Some([call |-> "constants", data |-> PotencyDict(Val(processed_data))])
            /\ constants' = Some(PotencyDict(Val(processed_data)))
    /\ UNCHANGED <<mode, config_vars, simulation_data, processed_data, run_vars, run_state>>

\* the calls drawn when constants() is exercised
SetSimulationParametersForConstants ==
    \E l \in LigandLists :
        InhibitionSetSimulationParameters(TheAgonist, Some(l), Some(AffinityList(Len(l))), Some("Gs"),
                                          Some(1), Some(<<1>>), Some(10), Some(3), "omitted", Omitted)

\* an inhibition engine is constructed
InitConstants ==
    /\ mode = "inhibition"
    /\ EngineInit
    /\ fitModelInit
    /\ response = [gain |-> 0, offset |-> 0]
    /\ peak = NoPeak
    /\ binder = NoBinding

NextConstants ==
    \/ SetSimulationParametersForConstants
    \/ RunBegin
    \/ SimulatePoint
    \/ StorePoint
    \/ RunEnd
    \/ Analysis
    \/ CallConstants

SpecConstants == InitConstants /\ [][NextConstants]_vars

(* ------------------------------------------------- binding: bind, maxbend *)
\* binding.bind(receptor_conc=rc, lig_conc_range=rng, pKd=pKd): the occupancy at
\* every concentration of the range, in the order of the range
bind(rc, rng, pKd) ==
    /\ mode = "binding"
    /\ binder' = [binder EXCEPT
                     !.binding_data = Some([i \in 1..Len(rng) |-> LR_eq_conc(rc, rng[i], 0, pKd, 0)]),
                     !.err = NoError]
    /\ UNCHANGED <<engine_vars, cal_vars, peak>>

\* round(min_value.x[0], 3) on an abscissa written in ten-thousandths
RoundedAbscissa(x) == RoundAt(x, 10)

\* what minimize(..., method='Nelder-Mead') can return: the OptimizeResult says
\* whether the simplex met its tolerances within the iteration budget (success)
\* and holds the last vertex (x) either way
MinimizeResults == [success : BOOLEAN, x : {12344, 12345, 12356}]

\* binding.maxbend(): curve_fit returns or raises; the result of minimize is
\* rounded and stored
maxbend ==
    /\ mode = "binding"
    /\ IF IsNone(binder.binding_data)
       THEN binder' = [binder EXCEPT !.err = Error("AttributeError", "_lig_conc_range")]
       ELSE \/ binder' = [binder EXCEPT !.err = Error("FitDivergence", "")]
            \/ \E min_value \in MinimizeResults :
                  binder' = [binder EXCEPT !.min_value = Some(min_value),
                                           !.submax_concentration = Some(RoundedAbscissa(min_value.x)),
                                           !.err = NoError]
    /\ UNCHANGED <<engine_vars, cal_vars, peak>>

\* a binding object is constructed
InitBinding ==
    /\ mode = "binding"
    /\ EngineInit
    /\ fitModelInit
    /\ response = [gain |-> 0, offset |-> 0]
    /\ peak = NoPeak
    /\ binder = NoBinding

NextBinding ==
    \/ \E rc \in {1, 2}, rng \in ConcRanges, pKd \in {6, 7} : bind(rc, rng, pKd)
    \/ maxbend

SpecBinding == InitBinding /\ [][NextBinding]_vars

(* ================================================================ claims *)
\* the ligand names of the configured list, as Run keys them
LigandNames == {splitext(Val(ligands)[i]) : i \in 1..Len(Val(ligands))}
ObservableSet(p) == {list_of_observables(p)[k] : k \in 1..Len(list_of_observables(p))}

\* C1: after a successful Run over a range of N points the simulation data holds,
\* for every ligand, exactly N records, and each record holds the concentration,
\* the time grid and a time series for every observable the pathway declares.
RunStoresEveryPoint ==
    run_state = "Completed" =>
        /\ ~IsNone(simulation_data)
        /\ DictKeys(Val(simulation_data)) = LigandNames
        /\ \A e \in 1..Len(Val(simulation_data)) :
              LET records == Val(simulation_data)[e].value.sim_data
              IN  /\ Len(records) = Len(Val(lig_conc_range))
                  /\ \A i \in 1..Len(records) :
                        /\ records[i].ligand_conc \in {Val(lig_conc_range)[k] : k \in 1..Len(Val(lig_conc_range))}
                        /\ records[i].time = TimeGrid(Val(ttotal), Val(nsteps))
                        /\ DOMAIN records[i].obs = ObservableSet(Val(pathway))
                        /\ \A o \in DOMAIN records[i].obs : Len(records[i].obs[o]) > 0

RunStoresEveryPointWitness ==
    /\ run_state = "Completed"
    /\ Len(Val(simulation_data)) >= 2
    /\ Len(Val(lig_conc_range)) >= 2

\* C2: Run simulates the ligands in list order and, within a ligand, the
\* concentrations in range order, one point at a time: a point is simulated only
\* when the records of all earlier points of the ligand are stored, and the i-th
\* record of a ligand carries the i-th concentration of the range.
RunSweepsInOrder ==
    /\ \A k \in 1..Len(simlog) :
          /\ simlog[k].stored = simlog[k].idx - 1
          /\ simlog[k].ligand_conc = Val(lig_conc_range)[simlog[k].idx]
          /\ IF k = 1
             THEN simlog[k].lig = 1 /\ simlog[k].idx = 1
             ELSE \/ simlog[k].lig = simlog[k - 1].lig /\ simlog[k].idx = simlog[k - 1].idx + 1
                  \/ /\ simlog[k].lig = simlog[k - 1].lig + 1
                     /\ simlog[k].idx = 1
                     /\ simlog[k - 1].idx = Len(Val(lig_conc_range))
    /\ \A i \in 1..Len(r_data) : r_data[i].ligand_conc = Val(lig_conc_range)[i]
    /\ run_state = "Completed" =>
          \A e \in 1..Len(Val(simulation_data)) :
             LET records == Val(simulation_data)[e].value.sim_data
             IN  \A i \in 1..Len(records) : records[i].ligand_conc = Val(lig_conc_range)[i]

RunSweepsInOrderWitness ==
    /\ run_state = "Completed"
    /\ Len(simlog) >= 4
    /\ simlog[Len(simlog)].lig >= 2
    /\ Val(lig_conc_range)[1] > Val(lig_conc_range)[2]

\* C3: a simulator failure at one concentration point aborts the Run at that
\* point: the exception reaches the caller, no record is made for the point and
\* no later point is simulated.
SimulationFailureAborts ==
    err.kind = "SimulationFailure" =>
        /\ pc = "idle"
        /\ run_state = "Failed"
        /\ r_yout = None
        /\ r_data = <<>>
        /\ simlog # <<>>

SimulationFailureAbortsWitness ==
    /\ err.kind = "SimulationFailure"
    /\ simlog[Len(simlog)].idx = 1
    /\ Len(Val(lig_conc_range)) >= 2
    /\ Len(Val(ligands)) >= 2

\* C4: when the simulator fails while a ligand is swept, the time-courses of the
\* ligands whose sweep completed earlier in the same Run are still held,
\* unaltered, by the engine after the failure.
EarlierLigandsKeptOnFailure ==
    [][(pc = "loop" /\ err'.kind = "SimulationFailure" /\ Len(r_sim) > 0) =>
          /\ ~IsNone(simulation_data')
          /\ \A i \in 1..Len(r_sim) :
                /\ r_sim[i].key \in DictKeys(Val(simulation_data'))
                /\ DictGet(Val(simulation_data'), r_sim[i].key) = r_sim[i].value]_vars

\* C5: Analysis fails with the no-simulation-data error, computing nothing and
\* leaving processed_data unchanged, whenever the engine is in a state other
\* than Completed of the run state machine Configured -> Running -> Completed
\* (or Failed).
AnalysisRequiresCompletedRun ==
    [][(Analysis /\ run_state # "Completed") =>
          (err'.kind = "NoSimulationData" /\ processed_data' = processed_data)]_vars

\* the pathway identifiers Run and Analysis support
SupportedPathway(p) == ~IsNone(p) /\ CanonicalPathway(Val(p)) \in available_pathways

\* C7: Run and Analysis fail with the unknown-pathway error for every pathway
\* identifier outside {Gs, Gi, Gq} and the alias Gz(Gi): Run before any model is
\* built or simulated, Analysis before any result is stored, whatever the
\* number of ligands.
UnknownPathwayRejected ==
    [][/\ (RunBegin /\ InputError = NoError /\ ~SupportedPathway(pathway)) =>
             (err'.kind = "UnknownPathway" /\ pc' = "idle" /\ simlog' = <<>>)
       /\ (Analysis /\ ~IsNone(simulation_data) /\ ~IsNone(lig_conc_range) /\ ~SupportedPathway(pathway)) =>
             (err'.kind = "UnknownPathway" /\ processed_data' = processed_data)]_vars

\* C6: on an inhibition engine, configuring kinetic binding fails with the
\* unsupported-configuration error, no simulation is ever invoked while kinetic
\* binding is selected, and every network model Run builds has kinetics disabled.
InhibitionNeverKinetic ==
    mode = "inhibition" =>
        /\ \A k \in 1..Len(simlog) : simlog[k].kinetics = FALSE /\ simlog[k].flag # "True"
        /\ binding_kinetics = "True" => (pc = "idle" /\ simlog = <<>> /\ err # NoError)
        /\ (binding_kinetics = "True" /\ run_state = "Created") =>
               err.kind = "UnsupportedConfiguration"

InhibitionNeverKineticWitness ==
    /\ mode = "inhibition"
    /\ binding_kinetics = "True"
    /\ frame_set
    /\ run_state = "Failed"
    /\ err.kind = "UnsupportedConfiguration"

\* the required configuration fields that are undefined when Run is called
UndefinedFields ==
    {f \in (IF mode = "activation" THEN ActivationFields ELSE InhibitionFields) :
        \/ f \in {"ligands", "antagonists"} /\ IsNone(ligands)
        \/ f = "affinities" /\ IsNone(affinities) /\ binding_kinetics = "False"
        \/ f = "antagonists_affinities" /\ IsNone(affinities)
        \/ f = "pathway" /\ IsNone(pathway)
        \/ f = "receptor_conc" /\ IsNone(receptor_conc)
        \/ f = "lig_conc_range" /\ IsNone(lig_conc_range)
        \/ f = "ttotal" /\ IsNone(ttotal)
        \/ f = "nsteps" /\ IsNone(nsteps)
        \/ f = "agonist" /\ IsNone(agonist.name)
        \/ f = "agonist_affinity" /\ IsNone(agonist.affinity)
        \/ f = "agonist_submaximal_conc" /\ IsNone(agonist.submaximal_conc)}

\* C8: Run invoked with a required configuration field undefined raises an
\* error that names an undefined field, before the network model is built or
\* the simulator is invoked, for every combination of the other fields.
UndefinedFieldNamed ==
    [][(RunBegin /\ UndefinedFields # {}) =>
          /\ err'.kind = "InvalidInput"
          /\ err'.field \in UndefinedFields
          /\ pc' = "idle"
          /\ simlog' = <<>>]_vars

\* the trials (perturbed runs) the last fitModel.Run call has started
Trials == IF cal_sims = <<>> THEN 0 ELSE Len(cal_sims) - 1
NoRecordedMatch == \A k \in 1..Len(lst_ratio) : lst_ratio[k] # Val(expratio)

CalibrationBounded ==
    /\ outcome # "none" => Trials <= Val(maxiter)
    /\ outcome = "exhausted" =>
          /\ cal_pc = "idle"
          /\ Trials = Val(maxiter)
          /\ Len(lst_seed) = Val(maxiter)
          /\ Len(lst_ratio) = Val(maxiter)
          /\ NoRecordedMatch
    /\ (cal_pc = "idle" /\ outcome \in {"converged", "exhausted"} /\ NoRecordedMatch) =>
          outcome = "exhausted"

\* C9: the calibration search always terminates: it performs at most maxiter
\* trials, and when no trial's ratio equals the target it stops, exhausted,
\* after exactly maxiter trials with exactly maxiter recorded (seed, ratio) pairs.
CalibrationTerminates ==
    /\ []CalibrationBounded
    /\ (cal_pc = "loop") ~> (cal_pc = "idle")

CalibrationTerminatesWitness ==
    /\ outcome = "exhausted"
    /\ Val(maxiter) = MaxIter
    /\ Len(lst_ratio) = MaxIter
    /\ lst_seed[1] # lst_seed[MaxIter]

Abs(x) == IF x < 0 THEN 0 - x ELSE x

\* C10: the loop stops, converged, at the first trial whose ratio, rounded to
\* the decimal digits of the target, equals the target: the pair of that trial
\* is recorded, no further simulation is run, the seed is not stepped again;
\* a trial whose rounded ratio differs from the target never ends the loop
\* before maxiter.
ConvergesAtFirstMatch ==
    LET n == Len(lst_ratio)
        unit == RatioUnit(Decimals(Val(expratio)))
    IN  outcome \in {"running", "converged", "exhausted"} =>
            /\ Len(lst_seed) = n
            /\ \A k \in 1..n :
                  /\ lst_ratio[k] % unit = 0
                  /\ 2 * Abs(RawRatio(lst_seed[k]) - lst_ratio[k]) <= unit
            /\ \A k \in 1..(n - 1) : lst_ratio[k] # Val(expratio)
            /\ outcome = "converged" =>
                  /\ cal_pc = "idle"
                  /\ n >= 1
                  /\ lst_ratio[n] = Val(expratio)
                  /\ lst_seed[n] = Val(seed)
                  /\ Len(cal_sims) = n + 1
                  /\ cal_sims[n + 1].seed = seed
            /\ outcome = "running" => NoRecordedMatch
            /\ outcome = "exhausted" => (NoRecordedMatch /\ n = Val(maxiter))

ConvergesAtFirstMatchWitness ==
    /\ outcome = "converged"
    /\ Len(lst_ratio) >= 2
    /\ Len(lst_ratio) < Val(maxiter)
    /\ RawRatio(Val(seed)) # Val(expratio)

\* the calls of fitModel.Run that got past the baseline run without an exception
CalibrationRan == outcome \in {"running", "converged", "exhausted"}

\* C11: when the search has converged, the reported fold, substituted as the
\* scale factor of the target parameter, gives a ratio that equals the target
\* at the target's decimal precision.
FoldReproducesTarget ==
    outcome = "converged" => calc_ratio(Val(fold)) = Val(expratio)

\* C12: every non-converged trial changes the seed by exactly one step, up by
\* the increment when the trial's ratio is below the target and down by the
\* decrement otherwise; the next trial simulates that seed, and the pair
\* recorded for a trial holds the seed that trial simulated.
SeedStepsByFixedStep ==
    LET n == Len(lst_seed)
        step(k) == IF lst_ratio[k] < Val(expratio)
                   THEN Val(seed_incrementor) ELSE 0 - Val(seed_decrementor)
    IN  CalibrationRan =>
            /\ Len(lst_ratio) = n
            /\ \A k \in 1..n :
                  cal_sims[k + 1].kind = "trial" /\ cal_sims[k + 1].seed = Some(lst_seed[k])
            /\ \A k \in 1..(n - 1) : lst_seed[k + 1] = lst_seed[k] + step(k)
            /\ (n >= 1 /\ outcome # "converged") => Val(seed) = lst_seed[n] + step(n)

SeedStepsByFixedStepWitness ==
    /\ outcome = "exhausted"
    /\ Len(lst_seed) >= 3
    /\ lst_seed[2] > lst_seed[1]
    /\ lst_seed[3] < lst_seed[2]
    /\ Val(seed_incrementor) # Val(seed_decrementor)

\* C13: when the loop has run maxiter trials without a match, the search
\* reports the best-seen trial: the reported seed is the seed of a trial of
\* this call whose ratio is nearest the target.
ExhaustedReportsBestTrial ==
    (outcome = "exhausted" /\ Val(maxiter) > 0) =>
        /\ ~IsNone(fold)
        /\ \E k \in 1..Len(lst_seed) :
              /\ Val(fold) = lst_seed[k]
              /\ \A j \in 1..Len(lst_ratio) :
                    Abs(lst_ratio[k] - Val(expratio)) <= Abs(lst_ratio[j] - Val(expratio))

\* C14: the baseline is simulated exactly once, before the first trial, and
\* each trial runs exactly one simulation: the invocations of a call are the
\* baseline followed by one perturbed run per trial, so that every trial's
\* ratio is taken against the one baseline run.
OneSimulationPerTrial ==
    /\ cal_sims # <<>> =>
          /\ cal_sims[1].kind = "baseline"
          /\ \A k \in 2..Len(cal_sims) : cal_sims[k].kind = "trial"
    /\ CalibrationRan => Len(cal_sims) = 1 + Len(lst_ratio)
    /\ outcome = "exhausted" => Len(cal_sims) = 1 + Val(maxiter)

OneSimulationPerTrialWitness ==
    /\ outcome = "converged"
    /\ Len(cal_sims) = 3
    /\ Len(lst_ratio) = 2

\* C15: at every concentration point of an activation Run exactly one of the
\* two binding modes is used, for every value of the binding-kinetics flag:
\* flag off, the equilibrium solver is called and the model is built with
\* kinetics disabled from the complex concentration; flag on, the solver is not
\* called and the model is built with kinetics enabled; and the point gets a
\* simulation result (or the simulator's own failure).
OneBindingModeAtEveryPoint ==
    [][(SimulatePoint /\ mode = "activation" /\ ~IsNone(lig_conc_range)) =>
          /\ Len(simlog') = Len(simlog) + 1
          /\ LET made == simlog'[Len(simlog')]
             IN  /\ binding_kinetics = "False" => (~made.kinetics /\ ~IsNone(made.LR))
                 /\ binding_kinetics = "True" => (made.kinetics /\ IsNone(made.LR))
                 /\ made.kinetics <=> IsNone(made.LR)
          /\ \/ pc' = "store" /\ ~IsNone(r_yout')
             \/ err'.kind = "SimulationFailure"]_vars

\* C16: every equilibrium-solver call made for the ligand (antagonist) at
\* position i of the list uses the affinity at position i of the affinities
\* list, also when a name occurs more than once in the list; in inhibition the
\* agonist's submaximal concentration and affinity are the ligand and the
\* antagonist's concentration and affinity the competitor.
SolverUsesAffinityOfPosition ==
    \A k \in 1..Len(simlog) :
        ~IsNone(simlog[k].LR) =>
            LET call == Val(simlog[k].LR)
                own == Val(affinities)[simlog[k].lig]
            IN  IF mode = "activation"
                THEN /\ call.ligand_conc = simlog[k].ligand_conc
                     /\ call.ligand_pKd = own
                ELSE /\ call.ligand_conc = Val(agonist.submaximal_conc)
                     /\ call.ligand_pKd = Val(agonist.affinity)
                     /\ call.competitor_conc = simlog[k].ligand_conc
                     /\ call.competitor_pKd = own

\* v is the largest sample of the series
IsMaxOf(v, series) ==
    /\ \E j \in 1..Len(series) : series[j] = v
    /\ \A j \in 1..Len(series) : series[j] <= v

\* C17: Analysis reduces each concentration point to one scalar by the rule of
\* the pathway: for Gi (and its alias) the value normalized is 1 - max of the
\* cAMP series, for Gs the max of the cAMP series, for Gq the max of the IP3
\* series, the maximum being taken over the whole series of that point only;
\* the rule is the same on the activation and the inhibition engine.
ReductionByPathway ==
    [][(Analysis /\ err' = NoError) =>
          \A e \in 1..Len(Val(simulation_data)) :
             LET entry == Val(simulation_data)[e].value
                 dose == Val(processed_data')[e].value.normalized_data
                 n == Len(Val(lig_conc_range))
             IN  /\ Len(dose.to_normalize) = n
                 /\ \A i \in 1..n :
                       LET obs == entry.sim_data[i].obs
                       IN  \/ /\ pathway \in {Some("Gi"), Some("Gz(Gi)")}
                              /\ IsMaxOf(1 - dose.to_normalize[i], obs["obs_cAMP"])
                           \/ /\ pathway = Some("Gs")
                              /\ IsMaxOf(dose.to_normalize[i], obs["obs_cAMP"])
                           \/ /\ pathway = Some("Gq")
                              /\ IsMaxOf(dose.to_normalize[i], obs["obs_IP3"])]_vars

ReductionByPathwayWitness ==
    /\ mode = "inhibition"
    /\ err = NoError
    /\ ~IsNone(processed_data)
    /\ \E e \in 1..Len(Val(processed_data)) :
          LET dose == Val(processed_data)[e].value.normalized_data
          IN  /\ dose.transform = "1-max"
              /\ Len(dose.to_normalize) >= 2
              /\ dose.to_normalize[1] # dose.to_normalize[2]

\* C18: the parameter mapping passed to the network model is the default table
\* merged with the caller's override mapping, the override taking precedence:
\* every name of the override has the override's value, every other name of
\* the default table has the default's value, on every engine.
NetworkGetsMergedParameters ==
    \A k \in 1..Len(simlog) :
        LET passed == simlog[k].parameters
            default == DefaultPathwayParameters(Val(pathway))
            override == IF IsNone(binding_kinetic_parameters)
                        THEN <<>> ELSE Val(binding_kinetic_parameters)
        IN  /\ \A n \in DOMAIN override : n \in DOMAIN passed /\ passed[n] = override[n]
            /\ \A n \in DOMAIN default \ DOMAIN override : n \in DOMAIN passed /\ passed[n] = default[n]

\* the potency and its negative logarithm Analysis stored for a ligand
StoredPotencies(dose) ==
    IF mode = "activation"
    THEN <<dose["EC50 (uM)"], dose["pEC50"]>>
    ELSE <<dose["IC50 (uM)"], dose["pIC50"]>>

\* what a potency call gave back for one ligand: exactly the two stored values
GivesPotencies(given, dose) ==
    /\ Cardinality(DOMAIN given) = 2
    /\ {given[k] : k \in DOMAIN given} = {StoredPotencies(dose)[1], StoredPotencies(dose)[2]}
    /\ \A k \in DOMAIN given : k \in DOMAIN dose /\ given[k] = dose[k]

\* C19: Potency, PotencyToDict and PotencyToCSV fail with the unprocessed
\* error whenever Analysis has not yet produced processed data (processed data
\* exists exactly when an Analysis call has completed); afterwards they give
\* back, for every analysed ligand, exactly its potency and its negative
\* logarithm, and leave the processed data unchanged.
PotencyNeedsProcessedData ==
    /\ [](run_state = "Created" /\ err = NoError => IsNone(processed_data))
    /\ [][/\ processed_data' # processed_data => (Analysis /\ err' = NoError)
          /\ (Analysis /\ err' = NoError) => ~IsNone(processed_data')]_vars
    /\ [][\A via \in PotencyCalls :
             PotencyCall(via) =>
                 /\ processed_data' = processed_data
                 /\ simulation_data' = simulation_data
                 /\ IF IsNone(processed_data)
                    THEN err'.kind = "SimulationUnprocessed" /\ IsNone(kvalues')
                    ELSE LET d == Val(processed_data)
                             data == Val(kvalues').data
                         IN  /\ err' = NoError
                             /\ Len(data) = Len(d)
                             /\ \A e \in 1..Len(d) :
                                   IF via = "PotencyToCSV"
                                   THEN GivesPotencies(data[e], d[e].value)
                                   ELSE /\ data[e].key = d[e].key
                                        /\ GivesPotencies(data[e].value, d[e].value)]_vars

PotencyNeedsProcessedDataWitness ==
    /\ ~IsNone(kvalues)
    /\ err = NoError
    /\ Val(kvalues).call = "PotencyToCSV"
    /\ Len(Val(kvalues).data) >= 2
    /\ mode = "inhibition"

\* the samples of a course whose time lies after the warm-up window (all of
\* them when no window is given), as positions of the course
AfterWarmUp(obs, time_in) ==
    {k \in 1..Len(obs) : IsNone(time_in) \/ simtime(Len(obs))[k] > Val(time_in)}

\* position i is a local maximum among the positions S of the course: the
\* course rises into it and falls after it, inside S
IsLocalMaximumIn(obs, S, i) ==
    /\ i \in S
    /\ \E l \in S : l < i /\ obs[l] < obs[i] /\ \A j \in (l + 1)..i : obs[j] = obs[i]
    /\ \E r \in S : r > i /\ obs[r] < obs[i] /\ \A j \in i..(r - 1) : obs[j] = obs[i]

\* v is the value of the last local maximum after the warm-up window
IsLastPeakValue(v, obs, time_in) ==
    LET S == AfterWarmUp(obs, time_in)
    IN  \E i \in S :
           /\ IsLocalMaximumIn(obs, S, i)
           /\ obs[i] = v
           /\ \A j \in S : (j > i /\ IsLocalMaximumIn(obs, S, j)) => obs[j] = v

\* C20: for the baseline and for the perturbed run the peak used in the ratio
\* is the value of the last local maximum among the samples after the warm-up
\* window time_in (among all samples when time_in is not given), the same
\* window for both runs, and a peak value is obtained for every course the
\* simulator can return.
PeakIsLastLocalMaximum ==
    peak.applied =>
        /\ peak.err = NoError
        /\ ~IsNone(peak.vmax_obs_curve_1)
        /\ ~IsNone(peak.vmax_obs_curve_2)
        /\ IsLastPeakValue(Val(peak.vmax_obs_curve_1), peak.obs_1, peak.time_in)
        /\ IsLastPeakValue(Val(peak.vmax_obs_curve_2), peak.obs_2, peak.time_in)

\* a call of the activation engine with every other keyword defined and the
\* keyword binding_kinetics left out
ActivationCallOmittingKinetics ==
    \E rng \in {<<1>>, ZeroRange} :
        ActivationSetSimulationParameters(Some(<<"B">>), TRUE, Some(AffinityList(1)), Some("Gs"),
                                          Some(1), Some(rng), Some(10), Some(3), "omitted", Omitted)

\* C22: on the activation engine binding_kinetics is optional: a call of
\* SetSimulationParameters that leaves it out succeeds and the engine then
\* runs with binding kinetics off (the default False).
KineticsKeywordOptional ==
    [][ActivationCallOmittingKinetics =>
          /\ err' = NoError
          /\ run_state' = "Configured"
          /\ binding_kinetics' = "False"]_vars

\* C23: processed data that is not empty is derived from the simulation data
\* the engine holds now: one entry per entry of simulation_data, under the same
\* key and with the same label, so that a Run which replaces simulation_data
\* leaves no potency of an earlier Run readable.
ProcessedFromHeldData ==
    (~IsNone(processed_data) /\ Len(Val(processed_data)) > 0) =>
        /\ ~IsNone(simulation_data)
        /\ DictKeys(Val(processed_data)) = DictKeys(Val(simulation_data))
        /\ \A e \in 1..Len(Val(processed_data)) :
              Val(processed_data)[e].value["raw_data"].label = Val(simulation_data)[e].value.label

\* C24: Analysis pairs every response with the concentration of the Run that
\* produced it, also when SetSimulationParameters was called in between: the
\* x values are the concentrations stored in the records, there is one point
\* per record, and the reduced observable is one the records hold.
AnalysisUsesRunConfiguration ==
    [][(Analysis /\ err' = NoError /\ ~IsNone(processed_data')) =>
          \A e \in 1..Len(Val(processed_data')) :
             LET d == Val(processed_data')[e].value
                 sd == Val(simulation_data)[e].value.sim_data
             IN  /\ Len(d["raw_data"].x) = Len(sd)
                 /\ Len(d["raw_data"].y) = Len(sd)
                 /\ Len(d["normalized_data"].to_normalize) = Len(sd)
                 /\ \A i \in 1..Len(sd) :
                       /\ d["raw_data"].x[i] = sd[i].ligand_conc
                       /\ d["normalized_data"].metabolite \in DOMAIN sd[i].obs]_vars

\* C25: after a successful Run the simulation data holds exactly one entry for
\* every ligand of the configured list, also when names of the list repeat or
\* differ by their extension only.
OneEntryPerConfiguredLigand ==
    run_state = "Completed" =>
        /\ ~IsNone(simulation_data)
        /\ Len(Val(simulation_data)) = Len(Val(ligands))

\* C29: lst_seed and lst_ratio have the same length, and when Run has returned,
\* converged or exhausted, the iteration counter plotIterations reads equals
\* the number of trials performed and the number of recorded pairs.
IterationCountsTrials ==
    CalibrationRan =>
        /\ Len(lst_seed) = Len(lst_ratio)
        /\ (cal_pc = "idle" /\ outcome \in {"converged", "exhausted"}) =>
              /\ Val(iteration) = Trials
              /\ Val(iteration) = Len(lst_seed)

\* C30: starting from a positive seed, the scale factor of every trial is
\* strictly positive.
ScaleFactorPositive ==
    \A k \in 1..Len(cal_sims) : cal_sims[k].kind = "trial" => Val(cal_sims[k].seed) > 0

SubmaxFromConvergedMinimization ==
    [][maxbend =>
          IF binder'.err = NoError
          THEN /\ Val(binder'.min_value).success
               /\ binder'.submax_concentration = Some(RoundedAbscissa(Val(binder'.min_value).x))
          ELSE binder'.submax_concentration = binder.submax_concentration]_vars

\* C27: once Analysis has run on the inhibition engine, constants() can be
\* called any number of times, and every call returns the potency values
\* PotencyToDict returns.
ConstantsCallableRepeatedly ==
    [][(CallConstants /\ ~IsNone(processed_data)) =>
          /\ err' = NoError
          /\ ~IsNone(kvalues')
          /\ Val(kvalues').data = PotencyDict(Val(processed_data))]_vars

\* C28: in every trial of the calibration the perturbed run differs from the
\* baseline run in the target parameter only, and the target's value is the
\* seed times its value in the mapping the baseline was run with, the caller's
\* overrides included; with a seed of 1 the two runs get the same mapping.
\* Parameter values are in tenths and seeds in tenths.
PerturbedScalesBaseline ==
    \A k \in 2..Len(cal_sims) :
        LET base == cal_sims[1].parameters
            pert == cal_sims[k].parameters
            target == Val(target_parameter)
        IN  cal_sims[k].kind = "trial" =>
               /\ DOMAIN pert = DOMAIN base
               /\ \A n \in DOMAIN base \ {target} : pert[n] = base[n]
               /\ 10 * pert[target] = Val(cal_sims[k].seed) * base[target]
               /\ Val(cal_sims[k].seed) = 10 => pert = base

====
